---- MODULE Spec2Model ----
(***************************************************************************)
(* Model of the same_length_and_capacity late lint pass                    *)
(* (clippy_lints/src/same_length_and_capacity.rs).                         *)
(*                                                                         *)
(* The pass has one callback, check_expr, which the lint driver invokes    *)
(* on expression nodes of the HIR.  The callback reads the node, asks the  *)
(* type tables for the type of the receiver of a type-relative path, asks  *)
(* SpanlessEq whether the second and third arguments are the same          *)
(* expression and, on success, pushes one diagnostic into the driver's     *)
(* sink through span_lint_and_help.                                        *)
(***************************************************************************)
EXTENDS Integers, Sequences, FiniteSets

VARIABLES
    expr,      \* the node most recently handed to check_expr
    pc,        \* "pending" | "returned" | "panicked" for that invocation
    sink,      \* diagnostics emitted by the driver's traversal, in order
    visited,   \* nodes the traversal has handed to check_expr, in order
    sink2,     \* a second traversal of the same crate: its diagnostics
    visited2,  \* ... and the nodes it has handed to check_expr
    pc2        \* ... and whether it is still running

vars == <<expr, pc, sink, visited, sink2, visited2, pc2>>

----------------------------------------------------------------------------
(* Bounds of the model. *)

MaxBind == 3       \* local bindings 0..MaxBind
MaxLit == 1        \* integer literals 0..MaxLit
MaxArgs == 4       \* a call has 0..MaxArgs arguments
MaxSpan == 2       \* source spans 1..MaxSpan
MaxVisits == 2     \* nodes per traversal in the two-traversal specification

----------------------------------------------------------------------------
(* HIR expressions that occur as arguments. *)

Bindings == 0 .. MaxBind

\* Surface name of a binding: 0 is `ptr`, 1 is `len`, 2 is `cap`, and every
\* later binding is another `let len` shadowing binding 1.
Name(b) == CASE b = 0 -> "ptr" [] b = 2 -> "cap" [] OTHER -> "len"

Path(b) == [kind |-> "Path", res |-> b, name |-> Name(b)]
Lit(v) == [kind |-> "Lit", val |-> v]
Binary(op, l, r) == [kind |-> "Binary", op |-> op, lhs |-> l, rhs |-> r]
Paren(e) == [kind |-> "Paren", inner |-> e]
\* An expression kind the comparator has no arm for (closure, inline asm...).
Unrecognized == [kind |-> "Closure"]

BinOps == {"Add", "Sub"}
Lits == {Lit(v) : v \in 0 .. MaxLit}
Atoms == {Path(b) : b \in Bindings} \cup Lits \cup {Unrecognized}
Operands == Atoms \cup {Paren(a) : a \in Atoms}
Exprs == Operands \cup {Binary(op, l, r) : op \in BinOps, l \in Operands, r \in Lits}

----------------------------------------------------------------------------
(* Expression nodes handed to check_expr. *)

Spans == 1 .. MaxSpan
TyKinds == {"Vec", "String", "Other", "Error"}
Symbols == {"from_raw_parts", "from_raw_parts_in"}

\* The callee of a call: a type-relative path `Ty::name`, a resolved path
\* `name`, or an expression that is no path at all.
TypeRelative(t, n) == [kind |-> "Path", qpath |-> "TypeRelative", ty |-> t, name |-> n]
PathExprs ==
    {TypeRelative(t, n) : t \in TyKinds, n \in Symbols}
        \cup {[kind |-> "Path", qpath |-> "Resolved"], [kind |-> "Closure"]}

ptr == Path(0)

\* Argument lists: the pointer, then length and capacity, then extras.
ArgsOf(a, b, n) == SubSeq(<<ptr, a, b>> \o [i \in 1 .. MaxArgs |-> ptr], 1, n)
ArgLists == {ArgsOf(a, b, n) : a \in Exprs, b \in Exprs, n \in 0 .. MaxArgs}

Call(f, as, sp) == [kind |-> "Call", path_expr |-> f, args |-> as, span |-> sp]
NonCall(sp) == [kind |-> "MethodCall", span |-> sp]

\* expr is a node of the HIR: a call, or an expression of another kind.
IsNode(e) ==
    \E sp \in Spans :
        \/ e = NonCall(sp)
        \/ \E f \in PathExprs, as \in ArgLists : e = Call(f, as, sp)

----------------------------------------------------------------------------
(* Oracles consumed from clippy_utils. *)

\* cx.typeck_results().node_type(ty.hir_id): the type node carries the kind
\* of type the type tables resolved it to.
node_type(ty) == ty

is_type_diagnostic_item(ty, item) == ty = item

is_type_lang_item(ty, item) == ty = item

\* Parentheses are transparent to the comparator.
RECURSIVE reduce_exprkind(_)
reduce_exprkind(e) == IF e.kind = "Paren" THEN reduce_exprkind(e.inner) ELSE e

\* SpanlessEq::eq_expr: identifiers by binding, literals by value, compound
\* expressions recursively, anything else unequal.
RECURSIVE eq_expr(_, _)
eq_expr(left, right) ==
    LET l == reduce_exprkind(left)
        r == reduce_exprkind(right)
    IN  CASE l.kind = "Path" /\ r.kind = "Path" -> l.res = r.res
          [] l.kind = "Lit" /\ r.kind = "Lit" -> l.val = r.val
          [] l.kind = "Binary" /\ r.kind = "Binary" ->
                l.op = r.op /\ eq_expr(l.lhs, r.lhs) /\ eq_expr(l.rhs, r.rhs)
          [] OTHER -> FALSE

----------------------------------------------------------------------------
(* The lint pass. *)

\* The message and help literals (their backquotes written as quotes, the
\* help texts cut to their recommendation).
VecMsg == "usage of 'Vec::from_raw_parts' with the same expression for length and capacity"
StringMsg == "usage of 'String::from_raw_parts' with the same expression for length and capacity"
VecHelp == "consider reconstructing the 'Vec' using a 'Box' instead"
StringHelp == "consider reconstructing the 'String' using 'String::from' instead"

\* span_lint_and_help(cx, SAME_LENGTH_AND_CAPACITY, span, msg, None, help)
span_lint_and_help(snk, sp, msg, help) ==
    Append(snk, [lint |-> "SAME_LENGTH_AND_CAPACITY", span |-> sp, msg |-> msg, help |-> help])

\* `if let ExprKind::Call(path_expr, args) = expr.kind
\*   && let ExprKind::Path(QPath::TypeRelative(ty, fn_path)) = path_expr.kind`
IsTypeRelativeCall(e) ==
    /\ e.kind = "Call"
    /\ e.path_expr.kind = "Path"
    /\ e.path_expr.qpath = "TypeRelative"

\* Mutant: the selector is not compared with sym::from_raw_parts.
VecCondition_AnyName(e) ==
    /\ IsTypeRelativeCall(e)
    /\ is_type_diagnostic_item(node_type(e.path_expr.ty), "Vec")

\* The conditions of the first chain that are evaluated before args is indexed.
VecCondition(e) ==
    /\ IsTypeRelativeCall(e)
    /\ is_type_diagnostic_item(node_type(e.path_expr.ty), "Vec")
    /\ e.path_expr.name = "from_raw_parts"

\* Mutant: the receiver type of the second chain is not checked.
StringCondition_AnyType(e) ==
    /\ IsTypeRelativeCall(e)
    /\ e.path_expr.name = "from_raw_parts"

\* The same for the `else if` chain.
StringCondition(e) ==
    /\ IsTypeRelativeCall(e)
    /\ is_type_lang_item(node_type(e.path_expr.ty), "String")
    /\ e.path_expr.name = "from_raw_parts"

\* `&args[1]`, `&args[2]`: slice indexing panics when out of bounds.
IndexInBounds(e) == Len(e.args) > 2

\* Mutant: the indices are off by one, comparing pointer and length.
SameLenAndCap_OffByOne(e) == eq_expr(e.args[1], e.args[2])

\* Mutant: the comparison of length and capacity is left out of the chain.
SameLenAndCap_NoCompare(e) == TRUE

\* SpanlessEq::new(cx).eq_expr(&args[1], &args[2]), on the 1-based sequence.
SameLenAndCap(e) == eq_expr(e.args[2], e.args[3])

Returned(snk) == [pc |-> "returned", sink |-> snk]
Panicked(snk) == [pc |-> "panicked", sink |-> snk]

\* The `else if` arm and the implicit empty `else`.
StringArm(snk, e) ==
    IF StringCondition(e)
    THEN IF ~IndexInBounds(e) THEN Panicked(snk)
         ELSE IF SameLenAndCap(e)
              THEN Returned(span_lint_and_help(snk, e.span, StringMsg, StringHelp))
              ELSE Returned(snk)
    ELSE Returned(snk)

\* Mutant: the pass remembers that it has linted and lints only once.
check_expr_Once(snk, e) ==
    IF snk # <<>> THEN Returned(snk)
    ELSE IF VecCondition(e) /\ IndexInBounds(e) /\ SameLenAndCap(e)
         THEN Returned(span_lint_and_help(snk, e.span, VecMsg, VecHelp))
         ELSE IF VecCondition(e) /\ ~IndexInBounds(e) THEN Panicked(snk)
              ELSE StringArm(snk, e)

\* check_expr: the outcome of the invocation and the sink it leaves.
check_expr(snk, e) ==
    IF VecCondition(e)
    THEN IF ~IndexInBounds(e) THEN Panicked(snk)
         ELSE IF SameLenAndCap(e)
              THEN Returned(span_lint_and_help(snk, e.span, VecMsg, VecHelp))
              ELSE StringArm(snk, e)
    ELSE StringArm(snk, e)

----------------------------------------------------------------------------
(* Spec: the driver hands one arbitrary node to check_expr. *)

Init ==
    /\ IsNode(expr)
    /\ pc = "pending"
    /\ sink = <<>>
    /\ visited = <<>>
    /\ sink2 = <<>>
    /\ visited2 = <<>>
    /\ pc2 = "idle"

CheckExpr ==
    /\ pc = "pending"
    /\ visited = <<>>
    /\ LET r == check_expr(sink, expr)
       IN  /\ pc' = r.pc
           /\ sink' = r.sink
    /\ visited' = <<expr>>
    /\ UNCHANGED <<expr, sink2, visited2, pc2>>

Next == CheckExpr

Spec == Init /\ [][Next]_vars

----------------------------------------------------------------------------
(* SpecOrder: the driver traverses the nodes of one crate twice, each time *)
(* in an order and over a subset of its own choosing.  A panic of the      *)
(* callback ends the traversal it happens in.                              *)

len == Path(1)
cap == Path(2)

CrateNodes ==
    { Call(TypeRelative("Vec", "from_raw_parts"), <<ptr, len, len>>, 1),
      Call(TypeRelative("Vec", "from_raw_parts"), <<ptr, len, cap>>, 1),
      Call(TypeRelative("String", "from_raw_parts"), <<ptr, len, len>>, 1),
      Call(TypeRelative("Vec", "from_raw_parts"), <<ptr>>, 1),
      NonCall(1) }

InitOrder ==
    /\ expr = NonCall(1)
    /\ pc = "idle"
    /\ sink = <<>>
    /\ visited = <<>>
    /\ sink2 = <<>>
    /\ visited2 = <<>>
    /\ pc2 = "idle"

Visit(e) ==
    /\ pc \in {"idle", "returned"}
    /\ Len(visited) < MaxVisits
    /\ LET r == check_expr(sink, e)
       IN  /\ pc' = r.pc
           /\ sink' = r.sink
    /\ expr' = e
    /\ visited' = Append(visited, e)
    /\ UNCHANGED <<sink2, visited2, pc2>>

Revisit(e) ==
    /\ pc2 \in {"idle", "returned"}
    /\ Len(visited2) < MaxVisits
    /\ LET r == check_expr(sink2, e)
       IN  /\ pc2' = r.pc
           /\ sink2' = r.sink
    /\ visited2' = Append(visited2, e)
    /\ UNCHANGED <<expr, pc, sink, visited>>

NextOrder == \E e \in CrateNodes : Visit(e) \/ Revisit(e)

SpecOrder == InitOrder /\ [][NextOrder]_vars

----------------------------------------------------------------------------
(* Vocabulary of the properties. *)

Done == pc \in {"returned", "panicked"}
Flagged == sink # <<>>

\* `Ctor::from_raw_parts(...)` with Ctor the array or the text-buffer type.
IsRawPartsCall(e) ==
    /\ e.kind = "Call"
    /\ e.path_expr.kind = "Path"
    /\ e.path_expr.qpath = "TypeRelative"
    /\ e.path_expr.ty \in {"Vec", "String"}
    /\ e.path_expr.name = "from_raw_parts"

\* The expression tree without its parentheses.
RECURSIVE Shape(_)
Shape(e) ==
    CASE e.kind = "Paren" -> Shape(e.inner)
      [] e.kind = "Binary" -> Binary(e.op, Shape(e.lhs), Shape(e.rhs))
      [] OTHER -> e

\* Some sub-expression is of a kind the comparator has no arm for.
RECURSIVE HasUnrecognized(_)
HasUnrecognized(e) ==
    CASE e.kind \in {"Path", "Lit"} -> FALSE
      [] e.kind = "Paren" -> HasUnrecognized(e.inner)
      [] e.kind = "Binary" -> HasUnrecognized(e.lhs) \/ HasUnrecognized(e.rhs)
      [] OTHER -> TRUE

\* The call with its length and capacity arguments exchanged.
Swapped(e) ==
    [e EXCEPT !.args = [i \in DOMAIN e.args |->
        IF i = 2 THEN e.args[3] ELSE IF i = 3 THEN e.args[2] ELSE e.args[i]]]

Count(s, x) == Cardinality({i \in DOMAIN s : s[i] = x})
SameBag(s, t) ==
    \A x \in {s[i] : i \in DOMAIN s} \cup {t[i] : i \in DOMAIN t} : Count(s, x) = Count(t, x)

----------------------------------------------------------------------------
(* The properties. *)

C2_DistinctNotFlagged ==
    (/\ Done
     /\ IsRawPartsCall(expr)
     /\ Len(expr.args) = 3
     /\ Shape(expr.args[2]) # Shape(expr.args[3]))
        => (pc = "returned" /\ ~Flagged)

C2_Witness ==
    /\ pc = "returned"
    /\ IsRawPartsCall(expr)
    /\ expr.args = <<ptr, len, Binary("Add", len, Lit(0))>>
    /\ ~Flagged

\* C3: a call whose argument count is not exactly 3 is never flagged.
C3_OnlyThreeArgsFlagged ==
    (Done /\ expr.kind = "Call" /\ Len(expr.args) # 3) => ~Flagged

\* C4: a call whose receiver type is neither Vec nor String is never
\* flagged, whatever its selector and arguments.
C4_OtherTypeNotFlagged ==
    (/\ Done
     /\ expr.kind = "Call"
     /\ expr.path_expr.kind = "Path"
     /\ expr.path_expr.qpath = "TypeRelative"
     /\ expr.path_expr.ty \notin {"Vec", "String"})
        => (pc = "returned" /\ ~Flagged)

C4_Witness ==
    /\ pc = "returned"
    /\ expr.kind = "Call"
    /\ expr.path_expr = TypeRelative("Other", "from_raw_parts")
    /\ expr.args = <<ptr, len, len>>
    /\ ~Flagged

\* C5: an invocation emits at most one diagnostic: exactly one when the
\* call is Ctor::from_raw_parts with exactly three arguments on Vec or
\* String and length and capacity compare equal, none otherwise; the
\* diagnostic is at the span of the call and names the receiver's type.
C5_OneDiagnosticPerMatch ==
    Done =>
        /\ Len(sink) <= 1
        /\ (Len(sink) = 1) <=>
              (/\ IsRawPartsCall(expr)
               /\ Len(expr.args) = 3
               /\ eq_expr(expr.args[2], expr.args[3]))
        /\ Len(sink) = 1 =>
              /\ sink[1].span = expr.span
              /\ (sink[1].msg = VecMsg) <=> (expr.path_expr.ty = "Vec")
              /\ (sink[1].msg = StringMsg) <=> (expr.path_expr.ty = "String")

\* C6: check_expr never fails, whatever node it is given.
C6_NeverFails == pc # "panicked"

\* C7: two traversals that handed the same nodes to check_expr, in whatever
\* orders, have emitted the same diagnostics.
C7_OrderIndependent == SameBag(visited, visited2) => SameBag(sink, sink2)

C7_Witness ==
    /\ Len(visited) = 2
    /\ visited # visited2
    /\ SameBag(visited, visited2)
    /\ Len(sink) = 2
    /\ sink # sink2

\* C8: the comparator's verdict is symmetric, so a call on Vec or String is
\* flagged exactly when the call with length and capacity exchanged is.
C8_Symmetric ==
    (Done /\ IsRawPartsCall(expr) /\ Len(expr.args) = 3)
        => /\ eq_expr(expr.args[2], expr.args[3]) = eq_expr(expr.args[3], expr.args[2])
           /\ Flagged = (check_expr(<<>>, Swapped(expr)).sink # <<>>)

C8_Witness ==
    /\ pc = "returned"
    /\ IsRawPartsCall(expr)
    /\ expr.args = <<ptr, Paren(len), len>>
    /\ Flagged

C10_OnlyFromRawParts ==
    (Done /\ Flagged) =>
        /\ expr.kind = "Call"
        /\ expr.path_expr.kind = "Path"
        /\ expr.path_expr.qpath = "TypeRelative"
        /\ expr.path_expr.name = "from_raw_parts"

C10_Witness ==
    /\ pc = "returned"
    /\ expr.kind = "Call"
    /\ expr.path_expr = TypeRelative("Vec", "from_raw_parts_in")
    /\ expr.args = <<ptr, len, len>>
    /\ ~Flagged

====
